---- MODULE Spec2Model ----
(***************************************************************************)
(* PDF -> YAML schema conversion: the generate/validate loop of            *)
(* PDFToYAMLWorkflow (src/langgraph_agents/workflow.py) and the gate and   *)
(* scoring logic of SchemaValidator                                        *)
(* (src/langgraph_agents/agents/validator.py).                             *)
(*                                                                         *)
(* Four specifications share the validator:                                *)
(*   Spec           a conversion run through the compiled state graph      *)
(*                  (PDFToYAMLWorkflow.run);                               *)
(*   SpecRuns       several such runs, one after the other, in one process;*)
(*   SpecValidator  SchemaValidator.validate_and_suggest applied again and *)
(*                  again to one plain state dictionary by a direct caller *)
(*                  that supplies the next candidate and iteration number; *)
(*   SpecScoring    one full validation of a candidate, with Scoring       *)
(*                  Service replies over the whole range 0..100.           *)
(*                                                                         *)
(* Numbers: sub-scores are the integers the Scoring Service replied        *)
(* (0..100); weighted field scores are kept in tenths (900 = 90.0);        *)
(* confidence is kept in units of 0.0001 (7750 = 0.775).                   *)
(***************************************************************************)
EXTENDS Integers, Sequences, FiniteSets, TLC

\* ------------------------------------------------------------------ bounds
MaxLines == 2        \* field lines in the candidates given to the validator alone
\* Generation Service calls that raise, per run.  (A run whose generation
\* keeps failing is stopped in the end by the recursion limit of the graph
\* runtime, which is outside this model.)
MaxGenFailures == 1
\* conversion runs made one after the other in one process
MaxRuns == 2

\* --------------------------------------------------------------- constants
max_iterations == 3
PassThroughScore == 900
NameGate == 90
\* a quality gate that asks of type and description what is asked of the name
QualityGateStrict == NameGate
QualityGate == 75

NoScore == -1
NoPos == -1

\* ------------------------------------------------------- candidate schemas
\* A line of the schema's "content" text, as the three places the grammar
\* ^"(.*?)":\s*(\w+),\s*(.*) captures: raw name, raw type, raw description.
\* A line whose type place holds no word character does not match.
Line(name, type, desc) == [name |-> name, type |-> type, desc |-> desc]

\* well-formed field lines
FieldLines == { Line("a", "t", "d"), Line("b", "t", "d") }

NoTypeLine == Line("a", "", "d")     \* "a": , d      does not match
NoDescLine == Line("a", "t", "")     \* "a": t,       matches, empty description
BlankNameLine == Line(" ", "t", "d") \* " ": t, d     matches, name strips to ""

\* the two fields of the worked example of the weighted score
AgeLine == Line("age", "int", "years")
NameLine == Line("name", "str", "label")
ExampleLines == {AgeLine, NameLine}

Lines == FieldLines \cup {NoTypeLine, NoDescLine, BlankNameLine} \cup ExampleLines

Ids == {"a", "b", "", "age", "name"}

\* str.strip() on the strings the model uses
Strip(s) == IF s = " " THEN "" ELSE s

SeqsUpTo(S, n) == UNION { [1..k -> S] : k \in 0..n }

Content(lines) == [shape |-> "content", lines |-> lines]

\* What gpt_inference can return: any mapping.
\*   "empty"      {}                                  (falsy)
\*   "noentries"  {ds: <not a non-empty list>}
\*   "badentry"   {ds: [<not a mapping>, ...]}
\*   "content"    {ds: [{role: system, content: <lines>}]}; lines = <<>> is
\*                a missing or empty content
Schemas ==
    { [shape |-> s, lines |-> <<>>] : s \in {"empty", "noentries", "badentry"} }
    \cup { Content(ls) : ls \in SeqsUpTo(FieldLines, MaxLines) }
    \cup { Content(<<NoTypeLine>>), Content(<<NoTypeLine, Line("a", "t", "d")>>),
           Content(<<BlankNameLine>>),
           Content(<<NoDescLine>>), Content(<<NoDescLine, Line("a", "t", "d")>>) }

\* The candidates the Generation Service is made to return in a workflow run:
\* one or two of each kind.
GeneratedSchemas ==
    { [shape |-> s, lines |-> <<>>] : s \in {"empty", "noentries", "badentry"} }
    \cup { Content(<<>>), Content(<<NoTypeLine>>),
           Content(<<Line("a", "t", "d")>>), Content(<<Line("b", "t", "d")>>),
           Content(<<Line("a", "t", "d"), Line("b", "t", "d")>>),
           Content(<<NoDescLine, Line("a", "t", "d")>>) }

\* the candidates given to one full validation when the weighted score and
\* the confidence are looked at: the example fields, alone and together, and
\* the candidates with no field or with a field that lacks a part
ScoringSchemas ==
    { Content(<<AgeLine>>), Content(<<NameLine>>),
      Content(<<AgeLine, NameLine>>), Content(<<NameLine, AgeLine>>),
      Content(<<>>), Content(<<NoTypeLine>>), Content(<<NoDescLine>>),
      Content(<<NoDescLine, AgeLine>>) }
    \cup { [shape |-> s, lines |-> <<>>] : s \in {"empty", "noentries"} }

NoYaml == [shape |-> "none", lines |-> <<>>]

\* ------------------------------------------------------------ score cache
Kinds == {"name", "type", "description"}
ScoreValues(kind) == IF kind = "name" THEN {40, 95} ELSE {80}
\* a Scoring Service call either replies a number or fails ("fail": raises,
\* or replies something float() rejects)
Fail == -2
Replies(kind) == ScoreValues(kind) \cup {Fail}

\* the replies tried for the parts of the example fields
ExampleScoreValues == {0, 40, 80, 95, 100}
ExampleValues ==
    UNION { {l.name, l.type, l.desc} : l \in ExampleLines }
RepliesFor(kind, value) ==
    IF value \in ExampleValues THEN ExampleScoreValues \cup {Fail} ELSE Replies(kind)

\* cache_key = f"{field_type}:{field_value}", for the non-empty values
Keys ==
    { <<"name", Strip(l.name)>> : l \in { m \in Lines : Strip(m.name) # "" } }
    \cup { <<"type", Strip(l.type)>> : l \in { m \in Lines : Strip(m.type) # "" } }
    \cup { <<"description", Strip(l.desc)>> : l \in { m \in Lines : Strip(m.desc) # "" } }

EmptyCache == [k \in Keys |-> NoScore]

\* --------------------------------------------------- SchemaValidator parts
\* re.match(r'^"(.*?)":\s*(\w+),\s*(.*)', line.strip())
Matches(line) == line.type # ""

ParseLine(line) ==
    [name |-> Strip(line.name),
     type |-> Strip(line.type),
     description |-> Strip(line.desc)]

\* the loop over raw_text.splitlines(): matching lines become columns, in order
RECURSIVE ParseColumns(_)
ParseColumns(lines) ==
    IF lines = <<>> THEN <<>>
    ELSE IF Matches(Head(lines))
         THEN <<ParseLine(Head(lines))>> \o ParseColumns(Tail(lines))
         ELSE ParseColumns(Tail(lines))

NoPositions == [id \in Ids |-> NoPos]

\* field_positions[field_id] = len(columns) - 1, a later line with the same
\* id overwriting an earlier one
RECURSIVE PositionsUpTo(_, _)
PositionsUpTo(cols, n) ==
    IF n = 0 THEN NoPositions
    ELSE [PositionsUpTo(cols, n - 1) EXCEPT ![cols[n].name] = n - 1]

\* positions counted from 1
FieldPositionsFromOne(cols) ==
    [id \in Ids |-> IF PositionsUpTo(cols, Len(cols))[id] = NoPos THEN NoPos
                    ELSE PositionsUpTo(cols, Len(cols))[id] + 1]
\* the field_positions dictionary after the parse loop
FieldPositions(cols) == PositionsUpTo(cols, Len(cols))

\* What _check_yaml does before it reaches the field loop: the text of an
\* early return, "raise" (entries[0] has no .get), or "continue".
EarlyReturn(yaml) ==
    IF yaml.shape \in {"none", "empty"} THEN "No YAML content found"
    ELSE IF yaml.shape = "noentries" THEN "No entries under dataset"
    ELSE IF yaml.shape = "badentry" THEN "raise"
    ELSE IF yaml.lines = <<>> THEN "No 'content' found in dataset entry"
    ELSE IF ParseColumns(yaml.lines) = <<>> THEN "No valid fields found in schema"
    ELSE "continue"

\* the selective branch without the recovery of a renamed field by position
RECURSIVE SelectFailedNoRecovery(_, _, _, _)
SelectFailedNoRecovery(prev_failed, cols, positions, prev_positions) ==
    IF prev_failed = <<>> THEN {}
    ELSE LET field_name == Head(prev_failed)
             rest == SelectFailedNoRecovery(Tail(prev_failed), cols, positions, prev_positions)
         IN  IF positions[field_name] # NoPos THEN {field_name} \cup rest ELSE rest

\* the selective branch: for field_name in previous_failed_fields
RECURSIVE SelectFailed(_, _, _, _)
SelectFailed(prev_failed, cols, positions, prev_positions) ==
    IF prev_failed = <<>> THEN {}
    ELSE LET field_name == Head(prev_failed)
             rest == SelectFailed(Tail(prev_failed), cols, positions, prev_positions)
             pos == prev_positions[field_name]
         IN  IF positions[field_name] # NoPos THEN {field_name} \cup rest
             ELSE IF pos # NoPos /\ 0 <= pos /\ pos < Len(cols)
                  THEN {cols[pos + 1].name} \cup rest
                  ELSE rest

\* a validator that evaluates every field in every round
never_selective(iteration, prev_failed) == FALSE
\* is_selective = (iteration > 1 and previous_failed_fields)
is_selective(iteration, prev_failed) == iteration > 1 /\ prev_failed # <<>>

FieldsToEvaluate(iteration, prev_failed, cols, prev_positions) ==
    IF is_selective(iteration, prev_failed)
    THEN SelectFailed(prev_failed, cols, FieldPositions(cols), prev_positions)
    ELSE { cols[i].name : i \in DOMAIN cols }

\* a failed Scoring Service call taken for a score that passes every gate
FailureScoreGate == NameGate
\* except Exception: return 0.0
FailureScore == 0

\* _score_component with the Scoring Service's reply to the call it may make
score_component(kind, value, cache, reply) ==
    IF value = ""
    THEN [score |-> 0, cache |-> cache, called |-> FALSE, failed |-> FALSE]
    ELSE IF cache[<<kind, value>>] # NoScore
         THEN [score |-> cache[<<kind, value>>], cache |-> cache,
               called |-> FALSE, failed |-> FALSE]
    ELSE IF reply = Fail
         THEN [score |-> FailureScore, cache |-> cache,
               called |-> TRUE, failed |-> TRUE]
    ELSE [score |-> reply,
          cache |-> [cache EXCEPT ![<<kind, value>>] = reply],
          called |-> TRUE, failed |-> FALSE]

label_score(score) ==
    IF score >= 90 THEN "Accurate & Specific"
    ELSE IF score >= 75 THEN "Semantically Aligned"
    ELSE IF score >= 60 THEN "Vague / Abstract"
    ELSE IF score >= 40 THEN "Inaccurate"
    ELSE "Missing or irrelevant"

FeedbackLine(tag, field, part, score) ==
    [tag |-> tag, field |-> field, part |-> part, score |-> score,
     label |-> IF score = NoScore THEN "" ELSE label_score(score)]

StructureLines(col) ==
    (IF col.name = "" THEN <<FeedbackLine("[STRUCTURE]", col.name, "name", NoScore)>> ELSE <<>>)
    \o (IF col.type = "" THEN <<FeedbackLine("[STRUCTURE]", col.name, "type", NoScore)>> ELSE <<>>)
    \o (IF col.description = "" THEN <<FeedbackLine("[STRUCTURE]", col.name, "description", NoScore)>> ELSE <<>>)

\* the score gates as a chain in which the first violated gate hides the rest
GateLinesFirstOnly(col, name_score, type_score, desc_score) ==
    IF name_score < NameGate
    THEN <<FeedbackLine("[NAME GATE]", col.name, "name", name_score)>>
    ELSE IF type_score < QualityGate
    THEN <<FeedbackLine("[TYPE GATE]", col.name, "type", type_score)>>
    ELSE IF desc_score < QualityGate
    THEN <<FeedbackLine("[DESC GATE]", col.name, "description", desc_score)>>
    ELSE <<>>
\* the three score gates, each an "if" of its own
GateLines(col, name_score, type_score, desc_score) ==
    (IF name_score < NameGate THEN <<FeedbackLine("[NAME GATE]", col.name, "name", name_score)>> ELSE <<>>)
    \o (IF type_score < QualityGate THEN <<FeedbackLine("[TYPE GATE]", col.name, "type", type_score)>> ELSE <<>>)
    \o (IF desc_score < QualityGate THEN <<FeedbackLine("[DESC GATE]", col.name, "description", desc_score)>> ELSE <<>>)

\* the locals of _check_yaml while the field loop runs
NoFrame ==
    [active |-> FALSE, iteration |-> 0, idx |-> 0,
     prev_failed |-> <<>>, prev_positions |-> NoPositions,
     fields_to_evaluate |-> {},
     field_scores |-> <<>>, feedback_lines |-> <<>>, failed_fields |-> <<>>,
     structure_fail |-> FALSE, name_fail |-> FALSE, quality_fail |-> FALSE]

NewFrame(iteration, prev_failed, prev_positions, cols) ==
    [NoFrame EXCEPT !.active = TRUE, !.iteration = iteration, !.idx = 1,
                    !.prev_failed = prev_failed, !.prev_positions = prev_positions,
                    !.fields_to_evaluate =
                        FieldsToEvaluate(iteration, prev_failed, cols, prev_positions)]

\* called: the kinds for which the Scoring Service was called for this
\* column; failed: those of them for which the call failed
LogEntry(id, mode, n, t, d, w, called, failed) ==
    [id |-> id, mode |-> mode, name_score |-> n, type_score |-> t,
     desc_score |-> d, weighted |-> w, called |-> called, failed |-> failed,
     calls |-> Cardinality(called)]

Called(kind, r) == IF r.called THEN {kind} ELSE {}
Failed(kind, r) == IF r.failed THEN {kind} ELSE {}

\* a weighting that gives the type the weight of the description and back
WeightedScoreSwapped(name_score, type_score, desc_score) ==
    5 * name_score + 2 * desc_score + 3 * type_score
\* field_score = name*0.5 + desc*0.3 + type*0.2, in tenths
WeightedScore(name_score, type_score, desc_score) ==
    5 * name_score + 3 * desc_score + 2 * type_score

\* One pass of the body of "for col in columns" on column col, with the
\* replies rn, rt, rd of the Scoring Service to the calls it makes.
EvalField(fr, col, cache, rn, rt, rd) ==
    IF col.name \notin fr.fields_to_evaluate
    THEN [frame |-> [fr EXCEPT !.idx = @ + 1,
                               !.field_scores = Append(@, PassThroughScore)],
          cache |-> cache,
          entry |-> LogEntry(col.name, "skipped", NoScore, NoScore, NoScore, PassThroughScore, {}, {})]
    ELSE IF col.name = "" \/ col.type = "" \/ col.description = ""
    THEN [frame |-> [fr EXCEPT !.idx = @ + 1,
                               !.structure_fail = TRUE,
                               !.feedback_lines = @ \o StructureLines(col),
                               !.failed_fields = Append(@, col.name)],
          cache |-> cache,
          entry |-> LogEntry(col.name, "structure", NoScore, NoScore, NoScore, NoScore, {}, {})]
    ELSE LET n == score_component("name", col.name, cache, rn)
             t == score_component("type", col.type, n.cache, rt)
             d == score_component("description", col.description, t.cache, rd)
             field_score == WeightedScore(n.score, t.score, d.score)
             lines == GateLines(col, n.score, t.score, d.score)
         IN  [frame |-> [fr EXCEPT !.idx = @ + 1,
                                   !.field_scores = Append(@, field_score),
                                   !.name_fail = @ \/ n.score < NameGate,
                                   !.quality_fail = @ \/ t.score < QualityGate
                                                      \/ d.score < QualityGate,
                                   !.feedback_lines = @ \o lines,
                                   !.failed_fields =
                                       IF lines # <<>> THEN Append(@, col.name) ELSE @],
              cache |-> d.cache,
              entry |-> LogEntry(col.name, "scored", n.score, t.score, d.score,
                                 field_score,
                                 Called("name", n) \cup Called("type", t)
                                     \cup Called("description", d),
                                 Failed("name", n) \cup Failed("type", t)
                                     \cup Failed("description", d))]

RECURSIVE Sum(_)
Sum(s) == IF s = <<>> THEN 0 ELSE Head(s) + Sum(Tail(s))

\* a / b rounded to the nearest integer, ties to even
RoundDiv(a, b) ==
    LET q == a \div b
        r == a % b
    IN  IF 2 * r < b THEN q
        ELSE IF 2 * r > b THEN q + 1
        ELSE IF q % 2 = 0 THEN q ELSE q + 1

\* the sum of the field scores taken for their mean
ConfidenceUndivided(field_scores) == 10 * Sum(field_scores)
\* round(sum(field_scores) / len(field_scores) / 100.0, 4), in units of 0.0001
Confidence(field_scores) ==
    IF field_scores = <<>> THEN 0
    ELSE RoundDiv(10 * Sum(field_scores), Len(field_scores))

NoFeedback ==
    [head |-> "None", lines |-> <<>>, score |-> 0, failed |-> <<>>,
     structure_fail |-> FALSE, name_fail |-> FALSE, quality_fail |-> FALSE]

Message(text) == [NoFeedback EXCEPT !.head = text]

\* the feedback text assembled after the loop
BuildFeedback(fr) ==
    IF fr.feedback_lines = <<>>
    THEN Message("VALIDATION RESULT: Passed (all checks successful)")
    ELSE [head |-> "VALIDATION FEEDBACK:",
          lines |-> fr.feedback_lines,
          score |-> Confidence(fr.field_scores),
          failed |-> IF fr.structure_fail \/ fr.name_fail \/ fr.quality_fail
                     THEN fr.failed_fields ELSE <<>>,
          structure_fail |-> fr.structure_fail,
          name_fail |-> fr.name_fail,
          quality_fail |-> fr.quality_fail]

\* what _check_yaml returns
CheckResult(is_valid, confidence, feedback, failed_fields, field_positions) ==
    [is_valid |-> is_valid, confidence |-> confidence, feedback |-> feedback,
     failed_fields |-> failed_fields, field_positions |-> field_positions]

EarlyResult(text) == CheckResult(FALSE, 0, Message(text), <<>>, NoPositions)

\* a result whose validity overlooks the structure gate
LoopResultIgnoringStructure(fr, cols) ==
    CheckResult(~(fr.name_fail \/ fr.quality_fail),
                Confidence(fr.field_scores),
                BuildFeedback(fr),
                fr.failed_fields,
                FieldPositions(cols))
\* what _check_yaml returns after the field loop
LoopResult(fr, cols) ==
    CheckResult(~(fr.structure_fail \/ fr.name_fail \/ fr.quality_fail),
                Confidence(fr.field_scores),
                BuildFeedback(fr),
                fr.failed_fields,
                FieldPositions(cols))

\* the tags of the score gates alone
GateTagsScoresOnly == {"[NAME GATE]", "[TYPE GATE]", "[DESC GATE]"}
\* the tags validate_router looks for
GateTags == {"[NAME GATE]", "[TYPE GATE]", "[DESC GATE]", "[STRUCTURE]"}

HasGateTag(feedback) == \E i \in DOMAIN feedback.lines : feedback.lines[i].tag \in GateTags

\* a router that looks at the iteration budget only
validate_router_budget_only(feedback, iteration_count) ==
    IF iteration_count < max_iterations THEN "generate" ELSE "output"
\* the edge condition of the Validate stage
validate_router(feedback, iteration_count) ==
    IF HasGateTag(feedback) /\ iteration_count < max_iterations
    THEN "generate" ELSE "output"

\* ----------------------------------------------------------- prompt builder
NoPrompt == [built |-> FALSE]

\* f'"{f}"': the id between double quotes
Quoted(id) == <<"\"", id, "\"">>

\* ", ".join(f'"{f}"' for f in failed_fields), as the sequence of its items
FailedStr(failed) == [i \in DOMAIN failed |-> Quoted(failed[i])]

\* the earlier prompt builder (kept in the source as a comment): no
\* instruction on which fields to regenerate
create_prompt_plain(text, yaml, feedback, failed) ==
    [built |-> TRUE,
     text |-> text,
     previous |-> IF yaml.shape \in {"none", "empty"} THEN NoYaml ELSE yaml,
     feedback |-> feedback,
     instruction |-> "none",
     listed |-> <<>>]
\* _create_prompt
create_prompt(text, yaml, feedback, failed) ==
    [built |-> TRUE,
     text |-> text,
     previous |-> IF yaml.shape \in {"none", "empty"} THEN NoYaml ELSE yaml,
     feedback |-> feedback,
     instruction |-> IF failed # <<>> THEN "regenerate only" ELSE "generate complete",
     listed |-> IF failed # <<>> THEN FailedStr(failed) ELSE <<>>]

\* ------------------------------------------------------------------- state
VARIABLES
    harness,             \* "graph": PDFToYAMLWorkflow.run; "direct": a caller of validate_and_suggest
    pc,                  \* the stage about to execute
    extracted_text,      \* PDFState fields
    current_yaml,
    iteration_count,
    confidence_score,
    validation_feedback,
    is_final,
    error,
    output_path,
    json_obj,
    failed_fields,       \* the two keys the validator writes that PDFState does not declare
    field_positions,
    field_scores_cache,  \* SchemaValidator.field_scores_cache (class attribute)
    frame,               \* locals of a _check_yaml call in progress
    log,                 \* per column of the latest field loop: what was done with it
    round_info,          \* the latest validate_and_suggest call: how it ended and on what
    rounds,              \* Validate stages executed in this run
    gen_calls,           \* Generation Service calls in this run
    gen_failures,        \* Generation Service calls of this run that raised
    extract_failed,      \* the Extraction Service call of this run raised
    after_extract_failure, \* stages started in this run after the extraction failure
    after_gen_failure,   \* stages started in this run after the first generation failure
    valid_seen,          \* a _check_yaml call of this run returned is_valid = True
    out_runs,            \* Output stages executed in this run
    saved,               \* files written by YAMLGenerator.save in this run
    outcome,             \* "running", "returned", "raised": how run() ended
    run_no,              \* which run of this process it is: 1, 2, ...
    prompt               \* what a call of _create_prompt alone has returned

state_vars ==
    <<extracted_text, current_yaml, iteration_count, confidence_score,
      validation_feedback, is_final, error, output_path, json_obj,
      failed_fields, field_positions>>

history_vars ==
    <<round_info, rounds, gen_calls, gen_failures, extract_failed,
      after_extract_failure, after_gen_failure, valid_seen, out_runs, saved>>

vars ==
    <<harness, pc, state_vars, field_scores_cache, frame, log,
      history_vars, outcome, run_no, prompt>>

NoError == "None"
NoPath == "None"
NoJson == [keys |-> {}]
NoRound == [kind |-> "none", yaml |-> NoYaml, iteration |-> 0]

\* The keys of PDFState are the channels of StateGraph(PDFState); a key that
\* is not a channel ("failed_fields", "field_positions") is dropped from the
\* input of ainvoke and from what a node returns, so no node ever finds it in
\* the state it is given.  A plain dictionary keeps it.
KeptBetweenStages == harness = "direct"

\* state.get("failed_fields", []) / lines 100-104 of _validate_yaml
PriorFailedFields == IF KeptBetweenStages THEN failed_fields ELSE <<>>
PriorFieldPositions == IF KeptBetweenStages THEN field_positions ELSE NoPositions

\* initial_state of run()
InitialState ==
    /\ extracted_text = ""
    /\ current_yaml = NoYaml
    /\ iteration_count = 0
    /\ confidence_score = 0
    /\ validation_feedback = NoFeedback
    /\ is_final = FALSE
    /\ error = NoError
    /\ output_path = NoPath
    /\ json_obj = NoJson
    /\ failed_fields = <<>>
    /\ field_positions = NoPositions

InitialHistory ==
    /\ round_info = NoRound
    /\ rounds = 0
    /\ gen_calls = 0
    /\ gen_failures = 0
    /\ extract_failed = FALSE
    /\ after_extract_failure = {}
    /\ after_gen_failure = {}
    /\ valid_seen = FALSE
    /\ out_runs = 0
    /\ saved = 0

InitCommon ==
    /\ InitialState
    /\ InitialHistory
    /\ field_scores_cache = EmptyCache
    /\ frame = NoFrame
    /\ log = <<>>
    /\ outcome = "running"
    /\ run_no = 1
    /\ prompt = NoPrompt

Init == harness = "graph" /\ pc = "extract" /\ InitCommon

InitValidator == harness = "direct" /\ pc = "caller" /\ InitCommon

\* one call of validate_and_suggest, first iteration, nothing failed before,
\* on a state dictionary that holds one of the example candidates
InitScoring ==
    /\ harness = "direct"
    /\ pc = "validate"
    /\ current_yaml \in ScoringSchemas
    /\ iteration_count = 1
    /\ extracted_text = ""
    /\ confidence_score = 0
    /\ validation_feedback = NoFeedback
    /\ is_final = FALSE
    /\ error = NoError
    /\ output_path = NoPath
    /\ json_obj = NoJson
    /\ failed_fields = <<>>
    /\ field_positions = NoPositions
    /\ InitialHistory
    /\ field_scores_cache = EmptyCache
    /\ frame = NoFrame
    /\ log = <<>>
    /\ outcome = "running"
    /\ run_no = 1
    /\ prompt = NoPrompt

\* the states _create_prompt is called on by itself: any text, any candidate
\* or none, no feedback or the feedback of a round, any list of failed ids
PromptFeedbacks ==
    { NoFeedback, Message("No valid fields found in schema"),
      [head |-> "VALIDATION FEEDBACK:",
       lines |-> <<FeedbackLine("[NAME GATE]", "a", "name", 40)>>,
       score |-> 6000, failed |-> <<"a">>,
       structure_fail |-> FALSE, name_fail |-> TRUE, quality_fail |-> FALSE] }

InitPrompt ==
    /\ harness = "direct"
    /\ pc = "prompt"
    /\ extracted_text \in {"", "text"}
    /\ current_yaml \in GeneratedSchemas \cup {NoYaml}
    /\ validation_feedback \in PromptFeedbacks
    /\ failed_fields \in SeqsUpTo({"a", "b", ""}, MaxLines)
    /\ iteration_count = 0
    /\ confidence_score = 0
    /\ is_final = FALSE
    /\ error = NoError
    /\ output_path = NoPath
    /\ json_obj = NoJson
    /\ field_positions = NoPositions
    /\ InitialHistory
    /\ field_scores_cache = EmptyCache
    /\ frame = NoFrame
    /\ log = <<>>
    /\ outcome = "running"
    /\ run_no = 1
    /\ prompt = NoPrompt

\* a stage starts: it is recorded if a failure came before it
Started(stage) ==
    /\ after_extract_failure' =
           IF extract_failed THEN after_extract_failure \cup {stage}
           ELSE after_extract_failure
    /\ after_gen_failure' =
           IF gen_failures > 0 THEN after_gen_failure \cup {stage}
           ELSE after_gen_failure

\* ------------------------------------------------------------ graph stages
\* one node of the compiled graph runs
Superstep(stage) ==
    /\ harness = "graph"
    /\ pc = stage

\* _extract_text
Extract ==
    /\ Superstep("extract")
    /\ \E ok \in BOOLEAN :
        IF ok
        THEN /\ extracted_text' = "text"
             /\ UNCHANGED <<error, is_final, extract_failed>>
        ELSE /\ error' = "extraction error"
             /\ is_final' = TRUE
             /\ extract_failed' = TRUE
             /\ UNCHANGED extracted_text
    /\ pc' = "generate"
    /\ UNCHANGED <<harness, current_yaml, iteration_count, confidence_score,
                   validation_feedback, output_path, json_obj, failed_fields,
                   field_positions, field_scores_cache, frame, log, round_info,
                   rounds, gen_calls, gen_failures, after_extract_failure,
                   after_gen_failure, valid_seen, out_runs, saved, outcome, run_no, prompt>>

\* _generate_yaml when gpt_inference returns the candidate yaml
GenerateOk(yaml) ==
    /\ current_yaml' = yaml
    /\ iteration_count' = iteration_count + 1
    /\ UNCHANGED <<error, is_final, gen_failures>>

\* _generate_yaml when _create_prompt or gpt_inference raises
GenerateFail ==
    /\ gen_failures < MaxGenFailures
    /\ error' = "generation error"
    /\ is_final' = TRUE
    /\ gen_failures' = gen_failures + 1
    /\ UNCHANGED <<current_yaml, iteration_count>>

Generate ==
    /\ Superstep("generate")
    /\ gen_calls' = gen_calls + 1
    /\ Started("generate")
    /\ \/ \E yaml \in GeneratedSchemas : GenerateOk(yaml)
       \/ GenerateFail
    /\ pc' = "validate"
    /\ UNCHANGED <<harness, extracted_text, confidence_score,
                   validation_feedback, output_path, json_obj, failed_fields,
                   field_positions, field_scores_cache, frame, log, round_info,
                   rounds, extract_failed, valid_seen, out_runs, saved, outcome, run_no, prompt>>

\* ------------------------------------------------------------- validation
\* where control goes when the validation of a round is over: the router of
\* the graph, or back to the direct caller
AfterValidate(feedback, count) ==
    IF harness = "graph" THEN validate_router(feedback, count)
    ELSE IF count >= max_iterations THEN "done" ELSE "caller"

\* validate_and_suggest lines 92-96, and the copy loop of _validate_yaml
StoreResult(result, iteration) ==
    /\ confidence_score' = result.confidence
    /\ validation_feedback' = result.feedback
    /\ failed_fields' = result.failed_fields
    /\ field_positions' = result.field_positions
    /\ is_final' = (iteration >= max_iterations \/ result.is_valid)
    /\ valid_seen' = (valid_seen \/ result.is_valid)
    /\ pc' = AfterValidate(result.feedback, iteration_count)

RoundInfo(kind) == [kind |-> kind, yaml |-> current_yaml, iteration |-> iteration_count]

\* _validate_yaml up to the first Scoring Service call of validate_and_suggest
ValidateStart ==
    /\ pc = "validate"
    /\ rounds' = rounds + 1
    /\ Started("validate")
    /\ LET iteration == iteration_count
           early == EarlyReturn(current_yaml)
       IN  IF iteration >= max_iterations
           THEN \* lines 81-83: no check is run
                /\ is_final' = TRUE
                /\ failed_fields' = PriorFailedFields
                /\ field_positions' = PriorFieldPositions
                /\ round_info' = RoundInfo("skipped")
                /\ pc' = AfterValidate(validation_feedback, iteration_count)
                /\ UNCHANGED <<confidence_score, validation_feedback, error,
                               valid_seen, frame, log>>
           ELSE IF early = "raise"
           THEN \* _check_yaml raises; _validate_yaml catches it, a direct caller gets it
                /\ error' = IF harness = "graph" THEN "validation error" ELSE error
                /\ is_final' = IF harness = "graph" THEN TRUE ELSE is_final
                /\ failed_fields' = PriorFailedFields
                /\ field_positions' = PriorFieldPositions
                /\ round_info' = RoundInfo("raised")
                /\ pc' = AfterValidate(validation_feedback, iteration_count)
                /\ UNCHANGED <<confidence_score, validation_feedback,
                               valid_seen, frame, log>>
           ELSE IF early # "continue"
           THEN /\ StoreResult(EarlyResult(early), iteration)
                /\ round_info' = RoundInfo("early")
                /\ UNCHANGED <<error, frame, log>>
           ELSE /\ frame' = NewFrame(iteration, PriorFailedFields, PriorFieldPositions,
                                     ParseColumns(current_yaml.lines))
                /\ log' = <<>>
                /\ round_info' = RoundInfo("loop")
                /\ pc' = "scoring"
                /\ UNCHANGED <<confidence_score, validation_feedback, failed_fields,
                               field_positions, is_final, error, valid_seen>>
    /\ UNCHANGED <<harness, extracted_text, current_yaml, iteration_count,
                   output_path, json_obj, field_scores_cache, gen_calls,
                   gen_failures, extract_failed, out_runs, saved, outcome, run_no, prompt>>

\* one pass of the field loop of _check_yaml
ScoreField ==
    /\ pc = "scoring"
    /\ LET cols == ParseColumns(current_yaml.lines)
       IN  /\ frame.idx <= Len(cols)
           /\ \E rn \in RepliesFor("name", cols[frame.idx].name),
                 rt \in RepliesFor("type", cols[frame.idx].type),
                 rd \in RepliesFor("description", cols[frame.idx].description) :
                 LET r == EvalField(frame, cols[frame.idx], field_scores_cache, rn, rt, rd)
                 IN  /\ frame' = r.frame
                     /\ field_scores_cache' = r.cache
                     /\ log' = Append(log, r.entry)
    /\ UNCHANGED <<harness, pc, state_vars, history_vars, outcome, run_no, prompt>>

\* _check_yaml after the loop, the rest of validate_and_suggest and of _validate_yaml
ValidateFinish ==
    /\ pc = "scoring"
    /\ LET cols == ParseColumns(current_yaml.lines)
       IN  /\ frame.idx > Len(cols)
           /\ StoreResult(LoopResult(frame, cols), frame.iteration)
    /\ frame' = NoFrame
    /\ log' = <<>>
    /\ UNCHANGED <<harness, extracted_text, current_yaml,
                   iteration_count, error, output_path, json_obj,
                   field_scores_cache, round_info, rounds, gen_calls,
                   gen_failures, extract_failed, after_extract_failure,
                   after_gen_failure, out_runs, saved, outcome, run_no, prompt>>

\* ------------------------------------------------------------------ output
JsonKeys == {"tables", "yaml_download_path", "stdout", "stderr", "return_code"}

\* _transform_yaml_to_json
JsonObj == [keys |-> JsonKeys]

\* YAMLGenerator.generate keeps a dataset only if its value is a non-empty
\* list; _transform_yaml_to_json raises on the empty mapping that is left
\* otherwise, and _evaluate_yaml_with_llm raises on an entry without .get
OutputRaisesAfterSave(yaml) == yaml.shape \in {"noentries", "badentry"}

\* what YAMLGenerator.save returns: the path of the file it wrote
SavedPath == "output/dataset_descriptions.yaml"

\* run(): both the try branch and the except branch return a state
run_outcome(graph_raised) == "returned"

\* an Output stage that writes only what the validator made final
ShouldWriteIfFinal ==
    error = NoError /\ current_yaml.shape \notin {"none", "empty"} /\ is_final
\* if not state.get("error") and state.get("current_yaml")
ShouldWrite ==
    error = NoError /\ current_yaml.shape \notin {"none", "empty"}

\* _format_output; the graph reaches END and run() returns final_state
Output ==
    /\ Superstep("output")
    /\ out_runs' = out_runs + 1
    /\ Started("output")
    /\ IF ShouldWrite
       THEN \E write_ok \in BOOLEAN :
              IF ~write_ok
              THEN \* YAMLGenerator.save raises YAMLGeneratorError
                   /\ error' = "output error"
                   /\ is_final' = TRUE
                   /\ UNCHANGED <<saved, output_path, json_obj>>
              ELSE /\ saved' = saved + 1
                   /\ IF OutputRaisesAfterSave(current_yaml)
                      THEN /\ error' = "output error"
                           /\ is_final' = TRUE
                           /\ UNCHANGED <<output_path, json_obj>>
                      ELSE /\ output_path' = SavedPath
                           /\ json_obj' = JsonObj
                           /\ UNCHANGED <<error, is_final>>
       ELSE UNCHANGED <<error, is_final, saved, output_path, json_obj>>
    /\ pc' = "done"
    /\ outcome' = run_outcome(FALSE)
    /\ UNCHANGED <<harness, extracted_text, current_yaml, iteration_count,
                   confidence_score, validation_feedback, failed_fields,
                   field_positions, field_scores_cache, frame, log, round_info,
                   rounds, gen_calls, gen_failures, extract_failed, valid_seen,
                   run_no, prompt>>

\* ---------------------------------------------------------------- next run
\* run() is called again in the same process, on the same workflow object or
\* on a new one: initial_state is built anew, and SchemaValidator's
\* class-level field_scores_cache is the dictionary the earlier run filled
StartNextRun ==
    /\ harness = "graph"
    /\ pc = "done"
    /\ run_no < MaxRuns
    /\ run_no' = run_no + 1
    /\ pc' = "extract"
    /\ extracted_text' = ""
    /\ current_yaml' = NoYaml
    /\ iteration_count' = 0
    /\ confidence_score' = 0
    /\ validation_feedback' = NoFeedback
    /\ is_final' = FALSE
    /\ error' = NoError
    /\ output_path' = NoPath
    /\ json_obj' = NoJson
    /\ failed_fields' = <<>>
    /\ field_positions' = NoPositions
    /\ round_info' = NoRound
    /\ rounds' = 0
    /\ gen_calls' = 0
    /\ gen_failures' = 0
    /\ extract_failed' = FALSE
    /\ after_extract_failure' = {}
    /\ after_gen_failure' = {}
    /\ valid_seen' = FALSE
    /\ out_runs' = 0
    /\ saved' = 0
    /\ outcome' = "running"
    /\ UNCHANGED <<harness, field_scores_cache, frame, log, prompt>>

\* ------------------------------------------------------------ direct caller
\* the caller puts the next candidate and iteration number into its state
\* dictionary before it calls validate_and_suggest
DirectCall ==
    /\ harness = "direct"
    /\ pc = "caller"
    /\ iteration_count < max_iterations
    /\ \E yaml \in Schemas : current_yaml' = yaml
    /\ iteration_count' = iteration_count + 1
    /\ pc' = "validate"
    /\ UNCHANGED <<harness, extracted_text, confidence_score,
                   validation_feedback, is_final, error, output_path, json_obj,
                   failed_fields, field_positions, field_scores_cache, frame,
                   log, history_vars, outcome, run_no, prompt>>

\* ----------------------------------------------------------- prompt alone
\* one call of _create_prompt on the state dictionary
CreatePrompt ==
    /\ pc = "prompt"
    /\ prompt' = create_prompt(extracted_text, current_yaml, validation_feedback,
                               IF KeptBetweenStages THEN failed_fields ELSE <<>>)
    /\ pc' = "done"
    /\ UNCHANGED <<harness, state_vars, field_scores_cache, frame, log,
                   history_vars, outcome, run_no>>

\* ---------------------------------------------------------- specifications
Next ==
    \/ Extract
    \/ Generate
    \/ ValidateStart
    \/ ScoreField
    \/ ValidateFinish
    \/ Output

Spec == Init /\ [][Next]_vars

NextValidator ==
    \/ DirectCall
    \/ ValidateStart
    \/ ScoreField
    \/ ValidateFinish

SpecValidator == InitValidator /\ [][NextValidator]_vars

NextScoring ==
    \/ ValidateStart
    \/ ScoreField
    \/ ValidateFinish

SpecScoring == InitScoring /\ [][NextScoring]_vars

\* conversion runs one after the other in one process
NextRuns ==
    \/ Next
    \/ StartNextRun

SpecRuns == Init /\ [][NextRuns]_vars

NextPrompt == CreatePrompt

SpecPrompt == InitPrompt /\ [][NextPrompt]_vars

TypeOK ==
    /\ harness \in {"graph", "direct"}
    /\ pc \in {"extract", "generate", "validate", "scoring", "output", "done",
              "caller", "prompt"}
    /\ iteration_count \in 0..max_iterations
    /\ confidence_score \in 0..10000
    /\ is_final \in BOOLEAN
    /\ outcome \in {"running", "returned", "raised"}


\* ================================================================== claims
Range(s) == { s[i] : i \in DOMAIN s }

\* the Validate stage of the graph has just ended
JustValidated == harness = "graph" /\ rounds >= 1 /\ pc \in {"generate", "output"}

\* ------------------------------------------------------------------- C1
\* C1: whatever the Generation Service, the Scoring Service and the validator
\* do (generation calls that raise included), a run executes at most
\* max_iterations generate/validate rounds, and when it has ended the Output
\* stage has run.
C1_EndsWithinMaxRounds ==
    /\ rounds <= max_iterations
    /\ pc = "done" => out_runs >= 1

\* ------------------------------------------------------------------- C2
\* C2: once max_iterations generate/validate rounds have run without a
\* validation returning is_valid = true, the graph does not route to Generate
\* again, and the state the run returns has is_final = true.
C2_IterationCap ==
    (rounds >= max_iterations /\ pc # "scoring" /\ ~valid_seen)
        => /\ pc # "generate"
           /\ outcome = "returned" => is_final

\* ------------------------------------------------------------------- C3
\* C3: iteration_count never exceeds max_iterations, and every execution of
\* the Generate stage (every Generation Service call, returning or raising)
\* increases iteration_count by exactly one.
C3_CountPerAttempt ==
    /\ [](iteration_count <= max_iterations)
    /\ [][gen_calls' = gen_calls + 1 => iteration_count' = iteration_count + 1]_vars

\* ------------------------------------------------------------------- C4
\* C4: within a run, once is_final is true no later stage writes it back to
\* false (so it changes from false to true at most once).
C4_IsFinalIrreversible == [][is_final => is_final']_vars

\* ------------------------------------------------------------------- C5
\* C5: after a Generation Service call has failed, no Validate stage and no
\* further Generate stage starts in that run.
C5_GenerationFailureAborts ==
    gen_failures > 0 => after_gen_failure \cap {"validate", "generate"} = {}

\* ------------------------------------------------------------------- C6
\* C6: after the Extraction Service has failed, neither the Generate stage
\* (the Generation Service call) nor the Validate stage starts in that run.
C6_ExtractionFailureAborts ==
    extract_failed => after_extract_failure \cap {"generate", "validate"} = {}

\* ------------------------------------------------------------------- C7
\* C7: run() never raises, and the state it returns after an extraction or
\* generation failure has is_final = true and a non-empty error.
C7_ReturnsTerminalState ==
    /\ outcome # "raised"
    /\ (outcome = "returned" /\ (extract_failed \/ gen_failures > 0))
           => (is_final /\ error # NoError)

\* where the score of column i stands in field_scores: a column failed by
\* the structure gate adds no score
ScoreIndex(i) == Cardinality({ j \in 1..i : log[j].mode # "structure" })

\* ------------------------------------------------------------------- C8
\* the evaluation set as the claim describes it, from the inputs of the round
ClaimedEvaluationSet(iteration, prev_failed, prev_positions, cols) ==
    LET current == { cols[i].name : i \in DOMAIN cols }
        prior == Range(prev_failed)
    IN  IF iteration <= 1 \/ prev_failed = <<>>
        THEN current
        ELSE (current \cap prior)
             \cup { cols[prev_positions[id] + 1].name :
                        id \in { f \in prior \ current :
                                     /\ prev_positions[f] >= 0
                                     /\ prev_positions[f] < Len(cols) } }

\* C8: in every validation round the fields that are evaluated (scored, or
\* failed by the structure gate without scoring) are all parsed fields when it
\* is the first iteration or there is no prior failed field, and otherwise
\* the current fields whose id failed before plus the current field at the
\* stored position of each failed id that is gone; every other field gets the
\* weighted score 90 and causes no Scoring Service call.
C8_EvaluationScope ==
    frame.active =>
        LET cols == ParseColumns(current_yaml.lines)
            claimed == ClaimedEvaluationSet(frame.iteration, frame.prev_failed,
                                            frame.prev_positions, cols)
        IN  /\ frame.fields_to_evaluate = claimed
            /\ \A i \in DOMAIN log :
                 /\ log[i].id = cols[i].name
                 /\ log[i].id \notin claimed =>
                        /\ log[i].mode = "skipped"
                        /\ log[i].weighted = 900
                        /\ log[i].calls = 0
                        /\ frame.field_scores[ScoreIndex(i)] = 900
                 /\ log[i].id \in claimed => log[i].mode \in {"scored", "structure"}

\* a selective round is over in which one field was evaluated because it
\* stands where a failed id stood, and another field was passed through
C8_Witness ==
    /\ frame.active
    /\ frame.iteration > 1
    /\ frame.prev_failed # <<>>
    /\ frame.idx > Len(ParseColumns(current_yaml.lines))
    /\ \E i \in DOMAIN log : log[i].mode = "skipped"
    /\ \E i \in DOMAIN log :
         log[i].mode = "scored" /\ log[i].id \notin Range(frame.prev_failed)

\* ------------------------------------------------------------------- C9
GoodScores(entry) ==
    /\ entry.mode = "scored"
    /\ entry.name_score >= 90
    /\ entry.type_score >= 75
    /\ entry.desc_score >= 75

FailsAGate(entry) ==
    \/ entry.mode = "structure"
    \/ entry.mode = "scored" /\ ~GoodScores(entry)

LoopDone == frame.active /\ frame.idx > Len(ParseColumns(current_yaml.lines))

\* C9 as stated: a field with non-empty name, type and description whose
\* sub-scores are name >= 90, type >= 75, description >= 75 does not have its
\* id in the failed_fields of that round.
C9_GoodFieldNotFailed ==
    LoopDone =>
        \A i \in DOMAIN log :
            GoodScores(log[i]) => log[i].id \notin Range(frame.failed_fields)

\* C9 amended: such a field has its id in failed_fields only if another line
\* of the same candidate declares the same id and fails a gate.
C9_GoodFieldNotFailedUnlessDuplicate ==
    LoopDone =>
        \A i \in DOMAIN log :
            (GoodScores(log[i]) /\ log[i].id \in Range(frame.failed_fields))
                => \E j \in DOMAIN log :
                       j # i /\ log[j].id = log[i].id /\ FailsAGate(log[j])

\* a round in which one field passed every gate while another field failed
C9_Witness ==
    /\ LoopDone
    /\ \E i \in DOMAIN log :
         GoodScores(log[i]) /\ log[i].id \notin Range(frame.failed_fields)
    /\ frame.failed_fields # <<>>

\* ------------------------------------------------------------------ C10
ZeroFields(yaml) == yaml.shape # "content" \/ ParseColumns(yaml.lines) = <<>>

NoFieldsMessages ==
    { "No YAML content found", "No entries under dataset",
      "No 'content' found in dataset entry", "No valid fields found in schema" }

\* C10: after the validation of a candidate from which no field is parsed,
\* the state holds confidence 0.0, a feedback saying that nothing valid was
\* found, no failed field and no field position, and the validation has set
\* no error.
C10_ZeroFieldsResult ==
    (JustValidated /\ ZeroFields(current_yaml))
        => /\ confidence_score = 0
           /\ validation_feedback.head \in NoFieldsMessages
           /\ failed_fields = <<>>
           /\ field_positions = NoPositions
           /\ error # "validation error"

\* ------------------------------------------------------------------ C11
\* the Scoring Service gave "age" 95/95/95 and "name" 40/80/80
ExampleCached ==
    /\ field_scores_cache[<<"name", "age">>] = 95
    /\ field_scores_cache[<<"type", "int">>] = 95
    /\ field_scores_cache[<<"description", "years">>] = 95
    /\ field_scores_cache[<<"name", "name">>] = 40
    /\ field_scores_cache[<<"type", "str">>] = 80
    /\ field_scores_cache[<<"description", "label">>] = 80

NameGateLineFor(lines, id) ==
    \E i \in DOMAIN lines :
        lines[i].tag = "[NAME GATE]" /\ lines[i].field = id /\ lines[i].score = 40

\* C11: every evaluated field with non-empty parts has the weighted score
\* 0.5*name + 0.3*description + 0.2*type (here in tenths), and the full
\* validation of "age" (95/95/95) and "name" (40/80/80) gives the weighted
\* scores 95 and 60, failed_fields = ["name"], is_valid = false, a name-gate
\* line for "name" in the feedback and the confidence 0.775.
C11_WeightedScore ==
    /\ LoopDone =>
          \A i \in DOMAIN log :
              log[i].mode = "scored" =>
                  /\ log[i].weighted =
                         5 * log[i].name_score + 3 * log[i].desc_score
                             + 2 * log[i].type_score
                  /\ frame.field_scores[ScoreIndex(i)] = log[i].weighted
    /\ (LoopDone /\ ExampleCached /\ current_yaml = Content(<<AgeLine, NameLine>>))
          => /\ frame.field_scores = <<950, 600>>
             /\ frame.failed_fields = <<"name">>
             /\ NameGateLineFor(frame.feedback_lines, "name")
    /\ (pc = "caller" /\ round_info.kind = "loop" /\ ExampleCached
           /\ current_yaml = Content(<<AgeLine, NameLine>>))
          => /\ confidence_score = 7750
             /\ failed_fields = <<"name">>
             /\ ~is_final
             /\ validation_feedback.name_fail
             /\ NameGateLineFor(validation_feedback.lines, "name")

\* the validation of the example has returned with those scores
C11_Witness ==
    /\ pc = "caller"
    /\ round_info.kind = "loop"
    /\ current_yaml = Content(<<AgeLine, NameLine>>)
    /\ ExampleCached
    /\ confidence_score = 7750

\* ------------------------------------------------------------------ C12
PartOf(col, kind) ==
    IF kind = "name" THEN col.name
    ELSE IF kind = "type" THEN col.type ELSE col.description

ScoreOf(entry, kind) ==
    IF kind = "name" THEN entry.name_score
    ELSE IF kind = "type" THEN entry.type_score ELSE entry.desc_score

\* C12: when the same (kind, value) pair is scored a second time in a run,
\* no Scoring Service call is made for it (one call in all) and the lookup
\* returns the value the first one returned.
C12_CacheIdempotent ==
    LoopDone =>
        LET cols == ParseColumns(current_yaml.lines)
        IN  \A i, j \in DOMAIN log : \A kind \in Kinds :
                (/\ i < j
                 /\ log[i].mode = "scored"
                 /\ log[j].mode = "scored"
                 /\ PartOf(cols[i], kind) = PartOf(cols[j], kind))
                    => /\ kind \notin log[j].called
                       /\ ScoreOf(log[j], kind) = ScoreOf(log[i], kind)

\* ------------------------------------------------------------------ C13
\* C13: no score is handed to a run as a cache hit unless a Scoring Service
\* call of that same run put it into the cache; so the first lookups of a
\* run, those for the first scored field of its first validation round, are
\* all answered by Scoring Service calls of that run.
C13_CachePerRun ==
    (harness = "graph" /\ rounds = 1 /\ Len(log) >= 1 /\ log[1].mode = "scored")
        => log[1].called = Kinds

\* ------------------------------------------------------------------ C14
\* a Scoring Service call of the round in progress has failed
ScoringFailed == \E i \in DOMAIN log : log[i].failed # {}

\* C14: a sub-score whose Scoring Service call failed is 0; the step in which
\* the call fails sets neither error nor is_final and leaves the round in
\* progress; the round goes on while fields remain and ends only when every
\* parsed field has been treated, and its end sets no error and does not
\* make the state final.
C14_ScoringFailureNonFatal ==
    /\ [](frame.active =>
            /\ \A i \in DOMAIN log : \A kind \in log[i].failed :
                   ScoreOf(log[i], kind) = 0
            /\ ScoringFailed => ENABLED (ScoreField \/ ValidateFinish))
    /\ [][(pc = "scoring" /\ ScoringFailed')
              => /\ error' = error
                 /\ is_final' = is_final
                 /\ pc' = "scoring"]_vars
    /\ [][(pc = "scoring" /\ pc' # "scoring" /\ ScoringFailed)
              => /\ Len(log) = Len(ParseColumns(current_yaml.lines))
                 /\ error' = error
                 /\ ~is_final']_vars

\* a round is over in which a call for the first field failed and the
\* second field was scored all the same
C14_Witness ==
    /\ LoopDone
    /\ Len(log) = 2
    /\ log[1].failed # {}
    /\ log[2].mode = "scored"

\* ------------------------------------------------------------------ C15
\* C15: in every reachable state confidence_score lies in [0, 1] (0..10000
\* in units of 0.0001), whatever the candidate and whatever the Scoring
\* Service replies within [0, 100].
C15_ConfidenceInUnitInterval ==
    /\ 0 <= confidence_score
    /\ confidence_score <= 10000

\* a validation of two fields has returned with every sub-score at 100
C15_Witness ==
    /\ round_info.kind = "loop"
    /\ pc = "caller"
    /\ Len(current_yaml.lines) = 2
    /\ confidence_score = 10000

\* ------------------------------------------------------------------ C16
\* run() has returned a state with no error and a generated schema
SuccessfulRun ==
    /\ outcome = "returned"
    /\ error = NoError
    /\ current_yaml.shape \notin {"none", "empty"}

\* C16: when a run has ended with no error and a generated schema, the
\* schema document was written exactly once in that run, output_path is the
\* path of the written file and json_obj is the response dictionary.
C16_PersistedOnce ==
    SuccessfulRun
        => /\ saved = 1
           /\ output_path = SavedPath
           /\ json_obj # NoJson
           /\ json_obj.keys # {}

\* a run has ended without error on a candidate that passed validation
C16_Witness ==
    /\ SuccessfulRun
    /\ valid_seen
    /\ is_final
    /\ saved = 1

\* ------------------------------------------------------------------ C17
\* C17: the response object the Output stage builds when it succeeds holds
\* the tables, the output path and the overall confidence of the run.
C17_ResponseHoldsConfidence ==
    (out_runs >= 1 /\ json_obj # NoJson)
        => {"tables", "yaml_download_path", "overall_confidence"} \subseteq json_obj.keys

\* ------------------------------------------------------------------ C18
\* C18: when the Output stage is about to run on a candidate the Generation
\* Service returned, the latest validation ran the validator's checks on
\* that very candidate (so confidence_score, validation_feedback and
\* failed_fields are its results), at every iteration, the one with
\* iteration_count = max_iterations included.
C18_OutputCandidateValidated ==
    (harness = "graph" /\ pc = "output" /\ current_yaml # NoYaml)
        => /\ round_info.kind \in {"early", "loop"}
           /\ round_info.yaml = current_yaml
           /\ round_info.iteration = iteration_count

\* ------------------------------------------------------------------ C19
\* the feedback in the state reports a failed gate
IndicatesGateFailure(feedback) ==
    feedback.structure_fail \/ feedback.name_fail \/ feedback.quality_fail

InvalidWithBudget ==
    /\ JustValidated
    /\ round_info.kind \in {"early", "loop"}
    /\ round_info.yaml = current_yaml
    /\ ~is_final
    /\ error = NoError
    /\ iteration_count < max_iterations

PassingScoresKnown(col) ==
    /\ col.name # "" /\ col.type # "" /\ col.description # ""
    /\ field_scores_cache[<<"name", col.name>>] >= 90
    /\ field_scores_cache[<<"type", col.type>>] >= 75
    /\ field_scores_cache[<<"description", col.description>>] >= 75

\* C21: a field is given the pass-through score 90 only if it was scored and
\* passed every gate in an earlier round of the run, so that a schema found
\* valid has only fields that were scored and passed.
C21_PassThroughOnlyAccepted ==
    LoopDone =>
        LET cols == ParseColumns(current_yaml.lines)
        IN  \A i \in DOMAIN log :
                log[i].mode = "skipped" => PassingScoresKnown(cols[i])

\* ------------------------------------------------------------------ C22
\* the weighted score of a parsed field as the claim counts it, in tenths:
\* the computed one if it was scored, 90 if it was passed through, and
\* nothing gained if the structure gate failed it
ClaimedWeighted(entry) ==
    IF entry.mode = "structure" THEN 0 ELSE entry.weighted

RECURSIVE SumClaimedWeighted(_)
SumClaimedWeighted(entries) ==
    IF entries = <<>> THEN 0
    ELSE ClaimedWeighted(Head(entries)) + SumClaimedWeighted(Tail(entries))

\* C22: the confidence a round returns for a candidate with parsed fields is
\* the mean of the weighted scores of all its parsed fields, one score per
\* parsed field, divided by 100 and rounded to 4 places.
C22_ConfidenceIsMeanOverParsed ==
    [][(pc = "scoring" /\ pc' # "scoring")
         => /\ Len(frame.field_scores) = Len(ParseColumns(current_yaml.lines))
            /\ confidence_score' =
                   RoundDiv(10 * SumClaimedWeighted(log),
                            Len(ParseColumns(current_yaml.lines)))]_vars

\* ------------------------------------------------------------------ C23
B2N(b) == IF b THEN 1 ELSE 0

\* how many gate conditions the evaluated column violates
Violations(entry, col) ==
    IF entry.mode = "structure"
    THEN B2N(col.name = "") + B2N(col.type = "") + B2N(col.description = "")
    ELSE IF entry.mode = "scored"
    THEN B2N(entry.name_score < 90) + B2N(entry.type_score < 75)
             + B2N(entry.desc_score < 75)
    ELSE 0

RECURSIVE SumViolations(_, _, _)
SumViolations(entries, cols, n) ==
    IF n = 0 THEN 0
    ELSE Violations(entries[n], cols[n]) + SumViolations(entries, cols, n - 1)

\* C23: the failed_fields of a round holds exactly the ids of the evaluated
\* fields that violate a gate (an empty part; name < 90; type < 75 or
\* description < 75), and every violated gate is reported, whichever other
\* gate the field violates: one feedback line per violation.
C23_FailedFieldsExact ==
    /\ [](frame.active =>
            LET cols == ParseColumns(current_yaml.lines)
            IN  /\ Range(frame.failed_fields)
                      = { log[i].id : i \in { j \in DOMAIN log : FailsAGate(log[j]) } }
                /\ \A i \in DOMAIN log :
                      FailsAGate(log[i]) <=> Violations(log[i], cols[i]) > 0
                /\ Len(frame.feedback_lines) = SumViolations(log, cols, Len(log)))
    /\ [][(pc = "scoring" /\ pc' # "scoring")
              => failed_fields' = frame.failed_fields]_vars

\* a round is over in which one field violated the name gate and the type
\* gate at once while another field passed every gate
C23_Witness ==
    /\ LoopDone
    /\ \E i \in DOMAIN log :
         /\ log[i].mode = "scored"
         /\ log[i].name_score < 90
         /\ log[i].type_score < 75
         /\ log[i].id \in Range(frame.failed_fields)
    /\ \E j \in DOMAIN log :
         GoodScores(log[j]) /\ log[j].id \notin Range(frame.failed_fields)

\* ------------------------------------------------------------------ C24
CarriesGateLine(feedback) ==
    \E i \in DOMAIN feedback.lines :
        feedback.lines[i].tag \in {"[STRUCTURE]", "[NAME GATE]", "[TYPE GATE]", "[DESC GATE]"}

\* C24: a round on a candidate with parsed fields returns is_valid = true
\* (which, below the iteration cap, is what it stores in is_final) exactly
\* when no evaluated field triggered a gate, and exactly when the returned
\* failed_fields is empty and the feedback carries no gate line.
C24_ValidIffNoGate ==
    [][(pc = "scoring" /\ pc' # "scoring")
         => /\ is_final' <=> (\A i \in DOMAIN log : ~FailsAGate(log[i]))
            /\ is_final' <=> (failed_fields' = <<>>
                                /\ ~CarriesGateLine(validation_feedback'))]_vars

\* a selective round has returned is_valid = true
C24_Witness ==
    /\ harness = "direct"
    /\ pc = "caller"
    /\ round_info.kind = "loop"
    /\ round_info.iteration = 2
    /\ is_final
    /\ failed_fields = <<>>

\* ------------------------------------------------------------------ C25
\* C25: the failed_fields and field_positions the validator is given as
\* "prior" in a round of a run are those the Validate stage stored at the
\* end of the round before.
C25_StateCarriedBetweenRounds ==
    (harness = "graph" /\ frame.active)
        => /\ frame.prev_failed = failed_fields
           /\ frame.prev_positions = field_positions

\* ------------------------------------------------------------------ C26
\* C26: the prompt holds the instruction to regenerate only the listed
\* fields, listing exactly the ids of the state's failed_fields, if and only
\* if failed_fields is non-empty; it holds the previous schema whenever
\* there is one, and the validation feedback whenever there is one.
C26_PromptContents ==
    prompt.built =>
        /\ prompt.instruction = "regenerate only" <=> failed_fields # <<>>
        /\ failed_fields # <<>> =>
               /\ Len(prompt.listed) = Len(failed_fields)
               /\ \A i \in DOMAIN failed_fields :
                      prompt.listed[i] = <<"\"", failed_fields[i], "\"">>
        /\ failed_fields = <<>> => prompt.listed = <<>>
        /\ current_yaml.shape \notin {"none", "empty"} => prompt.previous = current_yaml
        /\ current_yaml.shape \in {"none", "empty"} => prompt.previous = NoYaml
        /\ prompt.feedback = validation_feedback
        /\ prompt.text = extracted_text

\* a prompt was built for two failed ids, with a previous schema and feedback
C26_Witness ==
    /\ prompt.built
    /\ Len(failed_fields) = 2
    /\ prompt.instruction = "regenerate only"
    /\ prompt.previous # NoYaml
    /\ prompt.feedback # NoFeedback

\* ------------------------------------------------------------------ C27
\* the columns the parse loop makes of a candidate
ParsedFields(yaml) ==
    IF yaml.shape = "content" THEN ParseColumns(yaml.lines) ELSE <<>>

\* positions is the ordinal layout of the candidate: every id of a parsed
\* field is mapped, a mapped index is within 0..n-1, and the parsed field at
\* that index has the id
DescribesLayout(positions, yaml) ==
    LET cols == ParsedFields(yaml)
        n == Len(cols)
    IN  /\ \A i \in 1..n : positions[cols[i].name] # NoPos
        /\ \A id \in Ids :
              positions[id] # NoPos =>
                  /\ positions[id] \in 0..(n - 1)
                  /\ cols[positions[id] + 1].name = id

RoundEnds == pc \in {"validate", "scoring"} /\ pc' \notin {"validate", "scoring"}

\* C28: a round at iteration > 1 that receives a non-empty failed_fields
\* returns a failed_fields with at most as many distinct ids as it received,
\* whatever the candidate.
C28_FailingSetNeverGrows ==
    /\ [](frame.active /\ frame.iteration > 1 /\ frame.prev_failed # <<>>
             => Cardinality(Range(frame.failed_fields))
                    <= Cardinality(Range(frame.prev_failed)))
    /\ [][(RoundEnds /\ iteration_count > 1 /\ failed_fields # <<>>)
              => Cardinality(Range(failed_fields'))
                     <= Cardinality(Range(failed_fields))]_vars

\* a selective round is over on a two-field candidate: one field failed
\* again and the other was not evaluated
C28_Witness ==
    /\ LoopDone
    /\ frame.iteration > 1
    /\ frame.prev_failed # <<>>
    /\ frame.failed_fields # <<>>
    /\ Len(log) = 2
    /\ \E i \in DOMAIN log : log[i].mode = "skipped"
    /\ frame.prev_failed = failed_fields

\* ------------------------------------------------------------------ C29
NoIdTwice(ids) == \A i, j \in DOMAIN ids : ids[i] = ids[j] => i = j

\* C29: after every validation round each field id occurs at most once in
\* failed_fields and in the "Failed Fields" list of the feedback, for every
\* candidate, one that declares the same id on two lines included.
C29_FailedFieldsIsSet ==
    /\ NoIdTwice(failed_fields)
    /\ NoIdTwice(validation_feedback.failed)

\* ------------------------------------------------------------------ C30
\* C30: an error set at any stage of a run is never cleared afterwards, and
\* a run whose returned state has error set has written no file through
\* YAMLGenerator.save.
C30_ErrorMeansNothingWritten ==
    /\ []((outcome = "returned" /\ error # NoError) => saved = 0)
    /\ [][(error # NoError /\ run_no' = run_no) => error' # NoError]_vars

====
